---- MODULE Spec2Model ----
(***************************************************************************)
(* Model of server/host_model.py: a FastAPI server that loads a YOLO       *)
(* segmentation model and a depth model in its lifespan and serves one     *)
(* endpoint, POST /predict, for image and video uploads.                   *)
(*                                                                         *)
(* Numbers.  Volume scores are kept in hundredths (the code rounds them to *)
(* 2 decimals); a box_ratio is a fraction [num, den], because the image    *)
(* fallback is not rounded.  A rounding yields the set of nearest          *)
(* hundredths: an exact tie is decided by the binary value of the float,   *)
(* so both neighbours are possible results.                                *)
(*                                                                         *)
(* Scheduling.  predict is a coroutine on one event loop and its only      *)
(* suspension point is `await file.read()`, so at most one request is      *)
(* inside synchronous code at a time; the others are not started, parked   *)
(* at the await, or finished.                                              *)
(***************************************************************************)
EXTENDS Integers, Sequences, FiniteSets, TLC

VARIABLES app_models, phase, req, files

vars == <<app_models, phase, req, files>>

None == "None"

\* ------------------------------------------------------------------ bounds
\* frames a video may hold, boxes in one image result, boxes in one frame result
MaxFrames == 16
MaxDets == 2
MaxFrameDets == 1

\* ------------------------------------------------------- program constants
SampleEvery == 15
Calibration == 50000
FallbackScale == 10
VideoConfidence == 90

YOLO_MODEL_PATH == "yolov8n-seg.pt"
DEPTH_MODEL_REPO == "depth-anything/Depth-Anything-V2-Small-hf"

Reqs == {"r1", "r2"}

ModelKeys == {"yolo", "depth_processor", "depth_model", "device"}

\* --------------------------------------------------------------- helpers
Range(s) == {s[i] : i \in 1..Len(s)}

Abs(x) == IF x < 0 THEN -x ELSE x

\* str.startswith
StartsWith(s, p) == Len(s) >= Len(p) /\ SubSeq(s, 1, Len(p)) = p

\* dict.get(key): None when the key is absent
Get(d, k) == IF k \in DOMAIN d THEN d[k] ELSE None

\* Python truthiness of the value dict.get returned
Truthy(v) == v # None

\* round(num/den, 2) in hundredths: every integer nearest to 100*num/den
RoundHundredths(num, den) ==
  {q \in (100 * num) \div den .. (100 * num) \div den + 1 :
      2 * Abs(q * den - 100 * num) <= den}

Frac(n, d) == [num |-> n, den |-> d]

\* the ways to pick f[i] from sets[i] for every i
Choices(sets) ==
  {f \in [DOMAIN sets -> UNION {sets[i] : i \in DOMAIN sets}] :
     \A i \in DOMAIN sets : f[i] \in sets[i]}

\* ------------------------------------------------------------------ inputs
IMAGE_PREFIX == <<"i","m","a","g","e","/">>
VIDEO_PREFIX == <<"v","i","d","e","o","/">>

ContentTypes ==
  { None,
    <<>>,
    <<"i","m","a","g","e","/","j","p","e","g">>,
    <<"i","m","a","g","e">>,
    <<"I","m","a","g","e","/","p","n","g">>,
    <<"v","i","d","e","o","/","m","p","4">>,
    <<"v","i","d","e","o">>,
    <<"t","e","x","t","/","p","l","a","i","n">> }

Classes == {"rice", "egg"}

\* One detection of a YOLO result: box.cls, box.conf (thousandths),
\* len(masks.xyn[i]), the pixels its filled polygon covers, the mean of the
\* depth map over them, and box.xywh width and height.
Shapes ==
  { [segs |-> 0, area |-> 0,    avg |-> 0, w |-> 20, h |-> 30, conf |-> 300],
    [segs |-> 4, area |-> 0,    avg |-> 5, w |-> 0,  h |-> 3,  conf |-> 874],
    [segs |-> 4, area |-> 100,  avg |-> 2, w |-> 10, h |-> 10, conf |-> 874],
    [segs |-> 6, area |-> 1234, avg |-> 3, w |-> 40, h |-> 40, conf |-> 300] }

Detections ==
  {[cls |-> c, segs |-> s.segs, area |-> s.area, avg |-> s.avg,
    w |-> s.w, h |-> s.h, conf |-> s.conf] : c \in Classes, s \in Shapes}

\* results[0] of model.predict: the boxes in order; masks is None without boxes
YoloResults(n) == UNION {[1..k -> Detections] : k \in 0..n}

\* (height, width) of a decoded image
ImageSizes == {<<100, 100>>, <<90, 120>>}

\* (height, width) of the frames of a video
FrameSize == <<90, 120>>

\* ---------------------------------------------------------------- lifespan
\* What the three load stages leave in app_models.  "yolo_fails": YOLO(...)
\* raises before the first store; "depth_fails": a depth load raises after the
\* yolo store and before the three depth stores; "loaded": nothing raises.
StartupOutcomes == {"yolo_fails", "depth_fails", "loaded"}

\* variant: the processor is stored as soon as it is loaded
LoadModelsStoresEarly(outcome) ==
  IF outcome = "yolo_fails" THEN <<>>
  ELSE IF outcome = "depth_fails"
    THEN [k \in {"yolo", "depth_processor"} |->
            IF k = "yolo" THEN YOLO_MODEL_PATH ELSE DEPTH_MODEL_REPO]
  ELSE [k \in ModelKeys |->
          CASE k = "yolo" -> YOLO_MODEL_PATH
            [] k = "depth_processor" -> DEPTH_MODEL_REPO
            [] k = "depth_model" -> DEPTH_MODEL_REPO
            [] k = "device" -> "cpu"]

LoadModels(outcome) ==
  IF outcome = "yolo_fails" THEN <<>>
  ELSE IF outcome = "depth_fails" THEN [k \in {"yolo"} |-> YOLO_MODEL_PATH]
  ELSE [k \in ModelKeys |->
          CASE k = "yolo" -> YOLO_MODEL_PATH
            [] k = "depth_processor" -> DEPTH_MODEL_REPO
            [] k = "depth_model" -> DEPTH_MODEL_REPO
            [] k = "device" -> "cpu"]

\* app_models.clear()
ClearModels(models) == <<>>

\* ---------------------------------------------------------- pure functions
\* get_depth_map: (depth_map, heatmap data URL), or (None, None) without model
get_depth_map(models, size) ==
  IF "depth_model" \notin DOMAIN models
    THEN [depth_map |-> None, depth_image |-> None]
    ELSE [depth_map |-> <<models["depth_processor"], models["depth_model"],
                          models["device"], size>>,
          depth_image |-> <<"data:image/jpeg;base64", "depth_colormap">>]

\* calculate_volume: the possible return values, in hundredths.  The mask is
\* filled only for a non-empty polygon; d.area is np.sum(mask) and d.avg the
\* mean depth under the mask.
calculate_volume(d, depth_map) ==
  IF depth_map = None THEN {0}
  ELSE LET area_pixels == IF d.segs > 0 THEN d.area ELSE 0 IN
       IF area_pixels = 0 THEN {0}
       ELSE RoundHundredths(area_pixels * d.avg, Calibration)

\* variant: the fallback without its factor 10
FallbackUnscaled(d, size) == Frac(d.w * d.h, size[1] * size[2])

\* the box-area fallback of process_image
Fallback(d, size) == Frac(d.w * d.h * FallbackScale, size[1] * size[2])

\* volume_score of one image detection, given what calculate_volume returned
ImageVolumeScore(d, depth_map, size, cv) ==
  LET volume_score == IF d.segs > 0 THEN cv ELSE 0 IN
  IF volume_score = 0 THEN Fallback(d, size) ELSE Frac(volume_score, 100)

\* the detections list of process_image for one assignment of return
\* values; result.masks is truthy exactly when the result has boxes
ImageDetections(result, depth_map, size, cvs, confs) ==
  IF Len(result) > 0
    THEN [i \in 1..Len(result) |->
            [class |-> result[i].cls,
             confidence |-> confs[i],
             box_ratio |-> ImageVolumeScore(result[i], depth_map, size, cvs[i])]]
    ELSE <<>>

ImageResponse(detections, plotted, depth_image) ==
  [type |-> "image",
   detections |-> detections,
   count |-> Len(detections),
   annotated_data |-> <<"data:image/jpeg;base64", plotted>>,
   depth_data |-> depth_image]

\* variant: the sampling test is off by one frame
IsSampledFrameOffByOne(frame_count) == (frame_count + 1) % SampleEvery = 0

\* frame_count % 15 == 0
IsSampledFrame(frame_count) == frame_count % SampleEvery = 0

\* object_volumes is a dict in insertion order: a sequence of
\* [name, volumes] with distinct names.
KeyIndex(object_volumes, name) ==
  IF \E i \in 1..Len(object_volumes) : object_volumes[i].name = name
    THEN CHOOSE i \in 1..Len(object_volumes) : object_volumes[i].name = name
    ELSE 0

AppendVolume(object_volumes, name, vol) ==
  LET i == KeyIndex(object_volumes, name) IN
  IF i = 0 THEN Append(object_volumes, [name |-> name, volumes |-> <<vol>>])
  ELSE [object_volumes EXCEPT ![i].volumes = Append(@, vol)]

\* the sampling loop over the first n boxes of a frame result; vols[i] is
\* what calculate_volume returned for box i
RECURSIVE SampleBoxes(_, _, _, _)
SampleBoxes(object_volumes, result, vols, n) ==
  IF n = 0 THEN object_volumes
  ELSE LET before == SampleBoxes(object_volumes, result, vols, n - 1) IN
       IF result[n].segs > 0
         THEN AppendVolume(before, result[n].cls, vols[n])
         ELSE before

RECURSIVE Sum(_)
Sum(s) == IF Len(s) = 0 THEN 0 ELSE s[1] + Sum(Tail(s))

\* final_detections for one assignment of the roundings
FinalDetections(object_volumes, rounded) ==
  LET kept == SelectSeq(object_volumes, LAMBDA e : Len(e.volumes) > 0) IN
  [i \in 1..Len(kept) |->
     [class |-> kept[i].name,
      confidence |-> VideoConfidence,
      box_ratio |-> Frac(rounded[kept[i].name], 100)]]

\* variant: the mean leaves the zero samples out
AverageOfNonZero(object_volumes) ==
  LET names == {object_volumes[i].name : i \in 1..Len(object_volumes)}
      vols(n) == SelectSeq(object_volumes[KeyIndex(object_volumes, n)].volumes,
                           LAMBDA v : v # 0)
      avg(n) == IF Len(vols(n)) > 0
                  THEN RoundHundredths(Sum(vols(n)), 100 * Len(vols(n)))
                  ELSE {0}
  IN  {f \in [names -> UNION {avg(n) : n \in names}] :
         \A n \in names : f[n] \in avg(n)}

\* round(sum(volumes) / len(volumes), 2), per class
AverageChoices(object_volumes) ==
  LET names == {object_volumes[i].name : i \in 1..Len(object_volumes)}
      vols(n) == object_volumes[KeyIndex(object_volumes, n)].volumes
      avg(n) == IF Len(vols(n)) > 0
                  THEN RoundHundredths(Sum(vols(n)), 100 * Len(vols(n)))
                  ELSE {0}
  IN  {f \in [names -> UNION {avg(n) : n \in names}] :
         \A n \in names : f[n] \in avg(n)}

\* variant: the video response built like the image response
VideoResponseWithDepth(detections, video_bytes) ==
  [type |-> "video",
   detections |-> detections,
   count |-> Len(detections),
   annotated_data |-> <<"data:video/mp4;base64", video_bytes>>,
   depth_data |-> None]

VideoResponse(detections, video_bytes) ==
  [type |-> "video",
   detections |-> detections,
   count |-> Len(detections),
   annotated_data |-> <<"data:video/mp4;base64", video_bytes>>]

\* ------------------------------------------------------------------- state
\* app_models : the module-level registry (a dict)
\* phase      : where lifespan is: before startup, at its yield, after clear
\* req        : per request, the locals of predict / process_image /
\*              process_video and what the request has done so far
\* files      : the temp files that exist
NewRequest ==
  [pc |-> "idle", content_type |-> None, model |-> None,
   temp_in_path |-> None, out_path |-> None, created |-> {}, reads |-> 0,
   frame_count |-> 0, object_volumes |-> <<>>, written |-> <<>>,
   seen |-> {}, yolo_frames |-> {}, depth_frames |-> {}, sample_frames |-> {},
   cap_released |-> 0, out_released |-> 0, failed_at |-> {},
   raised_at |-> None,
   response |-> [kind |-> "none"]]

\* NamedTemporaryFile(delete=False): a name no other file has
TempName(r, kind) == <<r, kind>>

HTTPException(status_code, detail) ==
  [kind |-> "error", status |-> status_code, detail |-> detail]

\* an exception that leaves predict: FastAPI answers 500
Uncaught == HTTPException(500, "Internal Server Error")

\* the request ends with the exception the statement `where` raised
Raise(rq, where) ==
  [rq EXCEPT !.pc = "done", !.response = Uncaught, !.raised_at = where]

Ok(body) == [kind |-> "ok", body |-> body]

Finish(rq, response) == [rq EXCEPT !.pc = "done", !.response = response]

\* the request is inside synchronous code, or its response is being sent
Busy(q) == req[q].pc \in {"process_video", "frame_loop", "encode", "done"}

CanRun(r) == \A q \in Reqs \ {r} : ~Busy(q)

Init ==
  /\ app_models = <<>>
  /\ phase = "init"
  /\ req = [r \in Reqs |-> NewRequest]
  /\ files = {}

\* lifespan up to its yield
Startup ==
  /\ phase = "init"
  /\ \E outcome \in StartupOutcomes : app_models' = LoadModels(outcome)
  /\ phase' = "serving"
  /\ UNCHANGED <<req, files>>

\* lifespan after its yield
Shutdown ==
  /\ phase = "serving"
  /\ \A q \in Reqs : ~Busy(q)
  /\ app_models' = ClearModels(app_models)
  /\ phase' = "stopped"
  /\ UNCHANGED <<req, files>>

\* variant: the guard of predict never fires
ModelNeverMissing(model) == FALSE

\* `if not model`
ModelMissing(model) == ~Truthy(model)

IsImage(content_type) == StartsWith(content_type, IMAGE_PREFIX)

IsVideo(content_type) == StartsWith(content_type, VIDEO_PREFIX)

\* predict, from its entry to the await (image), to the call of
\* process_video (video), or to the exception it raises
Predict(r) ==
  /\ phase \in {"serving", "stopped"}
  /\ req[r].pc = "idle"
  /\ CanRun(r)
  /\ \E content_type \in ContentTypes, copied \in BOOLEAN :
       LET model == Get(app_models, "yolo")
           rq == [req[r] EXCEPT !.content_type = content_type, !.model = model]
       IN
       IF ModelMissing(model)
         THEN /\ req' = [req EXCEPT ![r] =
                           Finish(rq, HTTPException(503, "Model Loading..."))]
              /\ UNCHANGED files
       ELSE IF content_type = None
         THEN \* None.startswith: AttributeError
              /\ req' = [req EXCEPT ![r] = Raise(rq, "content_type")]
              /\ UNCHANGED files
       ELSE IF IsImage(content_type)
         THEN /\ req' = [req EXCEPT ![r] = [rq EXCEPT !.pc = "await_read"]]
              /\ UNCHANGED files
       ELSE IF IsVideo(content_type)
         THEN LET temp_in == TempName(r, "in")
                  made == [rq EXCEPT !.created = @ \cup {temp_in}]
              IN  /\ files' = files \cup {temp_in}
                  /\ req' = [req EXCEPT ![r] =
                       IF copied
                         THEN [made EXCEPT !.pc = "process_video",
                                           !.reads = @ + 1,
                                           !.temp_in_path = temp_in]
                         ELSE \* copyfileobj raises inside the with block
                              Raise([made EXCEPT !.reads = @ + 1], "copy")]
       ELSE /\ req' = [req EXCEPT ![r] = Finish(rq,
                         HTTPException(400, "Chỉ hỗ trợ file ảnh hoặc video."))]
            /\ UNCHANGED files
  /\ UNCHANGED <<app_models, phase>>

\* the rest of the image branch: file.read() returns, process_image runs
ProcessImage(r) ==
  /\ req[r].pc = "await_read"
  /\ CanRun(r)
  /\ \E decoded \in BOOLEAN, size \in ImageSizes, result \in YoloResults(MaxDets) :
       LET rq == [req[r] EXCEPT !.reads = @ + 1] IN
       IF ~decoded
         THEN \* cv2.imdecode returns None: img.shape raises AttributeError
              req' = [req EXCEPT ![r] = Raise(rq, "decode")]
         ELSE
           LET depth == get_depth_map(app_models, size)
               cv == [i \in DOMAIN result |->
                        calculate_volume(result[i], depth.depth_map)]
               conf == [i \in DOMAIN result |->
                          RoundHundredths(result[i].conf, 1000)]
           IN  \E cvs \in Choices(cv), confs \in Choices(conf) :
                 req' = [req EXCEPT ![r] =
                   Finish([rq EXCEPT !.yolo_frames = {0}, !.depth_frames = {0},
                                     !.seen = {result[i].cls : i \in 1..Len(result)}],
                          Ok(ImageResponse(
                               ImageDetections(result, depth.depth_map, size, cvs, confs),
                               [size |-> size, result |-> result],
                               depth.depth_image)))]
  /\ UNCHANGED <<app_models, phase, files>>

\* predict's finally around process_video: unlink the copied input
UnlinkInput(rq, fs) == fs \ {rq.temp_in_path}

\* process_video's finally around the read-back: unlink the output
UnlinkOutput(rq, fs) == fs \ {rq.out_path}

\* process_video from its entry to the frame loop: the capture is opened,
\* the output temp file is made, the writer is constructed (avc1, then mp4v
\* if that raises).  If mp4v raises too the exception leaves process_video
\* and predict.
OpenVideo(r) ==
  /\ req[r].pc = "process_video"
  /\ \E writer \in {"avc1", "mp4v", "raises"} :
       LET out_path == TempName(r, "out")
           rq == [req[r] EXCEPT !.out_path = out_path,
                                !.created = @ \cup {out_path}]
           made == files \cup {out_path}
       IN  IF writer = "raises"
             THEN /\ req' = [req EXCEPT ![r] = Raise(rq, "writer")]
                  /\ files' = UnlinkInput(rq, made)
             ELSE /\ req' = [req EXCEPT ![r] = [rq EXCEPT !.pc = "frame_loop"]]
                  /\ files' = made
  /\ UNCHANGED <<app_models, phase>>

\* variant: the finally releases the capture only
ReleaseCaptureOnly(rq) ==
  [rq EXCEPT !.cap_released = @ + 1, !.pc = "encode"]

\* the finally of the frame loop
Release(rq) ==
  [rq EXCEPT !.cap_released = @ + 1, !.out_released = @ + 1, !.pc = "encode"]

\* one iteration of the frame loop up to the first n boxes of the sampling
\* loop: cap.read() gave a frame, the detector ran, depth and samples are
\* taken on a sampled frame
FrameSampled(rq, models, size, result, n) ==
  LET k == rq.frame_count
      ran == [rq EXCEPT !.yolo_frames = @ \cup {k},
                        !.seen = @ \cup {result[i].cls : i \in 1..Len(result)}]
  IN
  IF IsSampledFrame(k)
    THEN LET depth == get_depth_map(models, size)
             vol == [i \in DOMAIN result |->
                       calculate_volume(result[i], depth.depth_map)]
         IN  {[ran EXCEPT
                 !.depth_frames = @ \cup {k},
                 !.object_volumes = SampleBoxes(@, result, vols, n),
                 !.sample_frames =
                    IF \E i \in 1..n : result[i].segs > 0 THEN @ \cup {k} ELSE @]
              : vols \in Choices(vol)}
    ELSE {ran}

\* a whole iteration: out.write(res_plotted); frame_count += 1
ProcessFrame(r) ==
  /\ req[r].pc = "frame_loop"
  /\ req[r].frame_count < MaxFrames
  /\ \E result \in YoloResults(MaxFrameDets) :
       \E rq \in FrameSampled(req[r], app_models, FrameSize, result, Len(result)) :
         req' = [req EXCEPT ![r] =
                   [rq EXCEPT !.written = Append(@, rq.frame_count),
                              !.frame_count = @ + 1]]
  /\ UNCHANGED <<app_models, phase, files>>

\* an iteration that raises: in model.predict, or later: in the sampling
\* loop after n boxes or in plot / write.  `except Exception` swallows it,
\* the finally releases capture and writer.
FrameRaises(r) ==
  /\ req[r].pc = "frame_loop"
  /\ req[r].frame_count < MaxFrames
  /\ \E in_predict \in BOOLEAN, result \in YoloResults(MaxFrameDets) :
       \E n \in 0..Len(result) :
         \E rq \in (IF in_predict
                      THEN {[req[r] EXCEPT !.yolo_frames = @ \cup {req[r].frame_count}]}
                      ELSE FrameSampled(req[r], app_models, FrameSize, result, n)) :
           req' = [req EXCEPT ![r] =
                     Release([rq EXCEPT !.failed_at = {rq.frame_count}])]
  /\ UNCHANGED <<app_models, phase, files>>

\* variant: the end of the loop also drops the depth entries of the registry
EndOfVideoDropsDepth(r) ==
  /\ req[r].pc = "frame_loop"
  /\ req' = [req EXCEPT ![r] =
               [@ EXCEPT !.cap_released = @ + 1, !.out_released = @ + 1,
                         !.pc = "encode"]]
  /\ app_models' = [k \in DOMAIN app_models \cap {"yolo"} |-> app_models[k]]
  /\ UNCHANGED <<phase, files>>

\* cap.isOpened() is false or cap.read() returns ret = False: the loop ends
EndOfVideo(r) ==
  /\ req[r].pc = "frame_loop"
  /\ req' = [req EXCEPT ![r] = Release(req[r])]
  /\ UNCHANGED <<app_models, phase, files>>

\* the rest of process_video and of predict: the averages, the read-back
\* of the output file, both unlinks
EncodeVideo(r) ==
  /\ req[r].pc = "encode"
  /\ \E readable \in BOOLEAN, rounded \in AverageChoices(req[r].object_volumes) :
       LET final_detections == FinalDetections(req[r].object_volumes, rounded)
       IN  req' = [req EXCEPT ![r] =
                     IF readable
                       THEN Finish(@, Ok(VideoResponse(final_detections, @.written)))
                       ELSE Raise(@, "read_back")]
  /\ files' = UnlinkInput(req[r], UnlinkOutput(req[r], files))
  /\ UNCHANGED <<app_models, phase>>

\* the response has been sent; the request's locals are gone
Respond(r) ==
  /\ req[r].pc = "done"
  /\ req' = [req EXCEPT ![r] = [NewRequest EXCEPT !.pc = "closed"]]
  /\ UNCHANGED <<app_models, phase, files>>

Next ==
  \/ Startup
  \/ Shutdown
  \/ \E r \in Reqs : Predict(r)
  \/ \E r \in Reqs : ProcessImage(r)
  \/ \E r \in Reqs : OpenVideo(r)
  \/ \E r \in Reqs : ProcessFrame(r)
  \/ \E r \in Reqs : FrameRaises(r)
  \/ \E r \in Reqs : EndOfVideo(r)
  \/ \E r \in Reqs : EncodeVideo(r)
  \/ \E r \in Reqs : Respond(r)

Spec == Init /\ [][Next]_vars

\* ============================================================== properties
HasContentType(rq) == rq.content_type # None

ImageRequest(rq) == HasContentType(rq) /\ StartsWith(rq.content_type, IMAGE_PREFIX)

VideoRequest(rq) == HasContentType(rq) /\ StartsWith(rq.content_type, VIDEO_PREFIX)

Succeeded(rq) == rq.pc = "done" /\ rq.response.kind = "ok"

Failed(rq, status) ==
  rq.pc = "done" /\ rq.response.kind = "error" /\ rq.response.status = status

\* nothing of the upload was read, no temp file made, no model invoked
Untouched(rq) ==
  /\ rq.reads = 0
  /\ rq.created = {}
  /\ rq.yolo_frames = {}
  /\ rq.depth_frames = {}

\* C1: a call of predict made while app_models has no "yolo" entry ends, in
\* that same step and for every content type, with HTTP 503 "Model
\* Loading...", before the upload is read, a temp file is made or a model is
\* invoked.
C1_NoModel503 ==
  [][\A r \in Reqs :
       (req[r].pc = "idle" /\ req'[r].pc # "idle" /\ "yolo" \notin DOMAIN app_models)
         => /\ req'[r].pc = "done"
            /\ req'[r].response = HTTPException(503, "Model Loading...")
            /\ Untouched(req'[r])
            /\ files' = files]_vars

\* a 503 for an image upload after the lifespan has cleared the registry
C1_Witness ==
  \E r \in Reqs :
    /\ Failed(req[r], 503)
    /\ phase = "stopped"
    /\ ImageRequest(req[r])

\* C2: with YOLO loaded, a finished call whose content type is missing or
\* starts with neither "image/" nor "video/" was answered 400 with the
\* Vietnamese message, made no temp file and ran no inference.
C2_Unsupported400 ==
  \A r \in Reqs :
    (req[r].pc = "done" /\ req[r].model # None
       /\ ~ImageRequest(req[r]) /\ ~VideoRequest(req[r]))
      => /\ req[r].response = HTTPException(400, "Chỉ hỗ trợ file ảnh hoặc video.")
         /\ req[r].created = {}
         /\ req[r].yolo_frames = {}
         /\ req[r].depth_frames = {}

\* C3: an ok response carries, for an image upload, exactly type "image",
\* detections, count, annotated_data and depth_data, for a video upload
\* exactly type "video", detections, count and annotated_data (no
\* depth_data); count is the length of detections.
C3_ResponseShape ==
  \A r \in Reqs :
    Succeeded(req[r]) =>
      LET body == req[r].response.body IN
      /\ ImageRequest(req[r]) \/ VideoRequest(req[r])
      /\ ImageRequest(req[r]) =>
            /\ body.type = "image"
            /\ DOMAIN body =
                 {"type", "detections", "count", "annotated_data", "depth_data"}
      /\ VideoRequest(req[r]) =>
            /\ body.type = "video"
            /\ DOMAIN body = {"type", "detections", "count", "annotated_data"}
            /\ "depth_data" \notin DOMAIN body
      /\ body.count = Len(body.detections)

\* a video response that lists a detection
C3_Witness ==
  \E r \in Reqs :
    /\ Succeeded(req[r])
    /\ VideoRequest(req[r])
    /\ req[r].response.body.count = 1
    /\ req[r].frame_count > 1

\* C9: the key set of app_models is empty, {yolo} or all four keys; a YOLO
\* load failure leaves it empty, a depth load failure leaves YOLO only, and
\* it is empty before startup and after shutdown.
C9_RegistryKeys ==
  /\ DOMAIN app_models \in
       {{}, {"yolo"}, {"yolo", "depth_processor", "depth_model", "device"}}
  /\ "depth_model" \in DOMAIN app_models =>
       {"depth_processor", "device", "yolo"} \subseteq DOMAIN app_models
  /\ phase \in {"init", "stopped"} => DOMAIN app_models = {}
  /\ DOMAIN LoadModels("yolo_fails") = {}
  /\ DOMAIN LoadModels("depth_fails") = {"yolo"}

\* the server runs with YOLO only and has answered an image request
C9_Witness ==
  /\ phase = "serving"
  /\ DOMAIN app_models = {"yolo"}
  /\ \E r \in Reqs : Succeeded(req[r]) /\ ImageRequest(req[r])

\* C4: when a video request that reached process_video is finished, with a
\* response or an exception, none of the temp files it made exists.
C4_TempFilesDeleted ==
  \A r \in Reqs :
    (req[r].pc = "done" /\ VideoRequest(req[r]) /\ req[r].out_path # None)
      => req[r].created \cap files = {}

SameRatio(a, b) == a.num * b.den = b.num * a.den

\* C5: in an image response every box_ratio is what calculate_volume
\* returned when that is not 0, and else (w * h) / (img_h * img_w) * 10;
\* calculate_volume returns 0 without depth map and for a mask without
\* pixels; without depth model depth_data is null and every box_ratio is the
\* fallback, and an image request fails only in decoding, ahead of any model.
C5_ImageBoxRatio ==
  \A r \in Reqs :
    /\ (Succeeded(req[r]) /\ ImageRequest(req[r])) =>
         LET body == req[r].response.body
             size == body.annotated_data[2].size
             result == body.annotated_data[2].result
             depth_map == IF body.depth_data = None THEN None ELSE "depth_map"
             fallback(d) == Frac(d.w * d.h * 10, size[1] * size[2])
         IN  /\ Len(body.detections) = Len(result)
             /\ \A i \in 1..Len(result) :
                  \E cv \in calculate_volume(result[i], depth_map) :
                    /\ SameRatio(body.detections[i].box_ratio,
                                 IF cv # 0 THEN Frac(cv, 100) ELSE fallback(result[i]))
                    /\ (depth_map = None \/ result[i].area = 0) => cv = 0
             /\ ("depth_model" \in DOMAIN app_models) = (body.depth_data # None)
             /\ body.depth_data = None =>
                  \A i \in 1..Len(result) :
                    SameRatio(body.detections[i].box_ratio, fallback(result[i]))
    /\ (req[r].pc = "done" /\ ImageRequest(req[r]) /\ req[r].model # None
          /\ req[r].response.kind = "error")
         => req[r].raised_at = "decode" /\ req[r].depth_frames = {}

\* an image response of a server with depth model: one box_ratio is a
\* non-zero volume score, another the fallback because the score of a
\* non-empty mask rounded to 0
C5_Witness ==
  \E r \in Reqs :
    /\ Succeeded(req[r]) /\ ImageRequest(req[r])
    /\ LET body == req[r].response.body
           result == body.annotated_data[2].result
       IN  /\ body.depth_data # None
           /\ body.count = 2
           /\ body.detections[1].box_ratio = Frac(7, 100)
           /\ result[2].area > 0
           /\ body.detections[2].box_ratio.den # 100
           /\ body.detections[2].box_ratio.num > 0

\* an image response of a server without depth model whose detection has a
\* non-empty mask
C5_WitnessNoDepth ==
  \E r \in Reqs :
    /\ Succeeded(req[r]) /\ ImageRequest(req[r])
    /\ req[r].response.body.depth_data = None
    /\ req[r].response.body.count = 1
    /\ req[r].response.body.annotated_data[2].result[1].area = 1234

\* C6: in a video request the detector has run on every frame read, the
\* depth map was taken on exactly the frames read whose index is a multiple
\* of 15, samples were appended on such frames only, and frame_count is the
\* number of frames written.
C6_Sampling ==
  \A r \in Reqs :
    VideoRequest(req[r]) =>
      LET rq == req[r] IN
      /\ \A i \in 0..rq.frame_count - 1 : i \in rq.yolo_frames
      /\ rq.yolo_frames \subseteq 0..rq.frame_count
      /\ \A i \in 0..rq.frame_count - 1 : (i % 15 = 0) <=> (i \in rq.depth_frames)
      /\ \A i \in rq.depth_frames : i % 15 = 0 /\ i \in rq.yolo_frames
      /\ rq.sample_frames \subseteq rq.depth_frames
      /\ rq.frame_count = Len(rq.written)
      /\ \A i \in 1..Len(rq.written) : rq.written[i] = i - 1

\* sixteen frames written, samples taken on frames 0 and 15 and on no other
C6_Witness ==
  \E r \in Reqs :
    /\ VideoRequest(req[r])
    /\ req[r].frame_count = 16
    /\ req[r].sample_frames = {0, 15}
    /\ req[r].seen = Classes

Names(object_volumes) == {object_volumes[i].name : i \in 1..Len(object_volumes)}

\* C7: a video response lists, in first-sample order, one detection per
\* class that has a sample; its box_ratio is the mean of all samples of the
\* class, zeros included, rounded to 2 decimals, its confidence 0.9.
C7_VideoDetections ==
  \A r \in Reqs :
    (Succeeded(req[r]) /\ VideoRequest(req[r])) =>
      LET dets == req[r].response.body.detections
          ov == req[r].object_volumes
      IN  /\ Len(dets) = Len(ov)
          /\ \A i, j \in 1..Len(dets) : dets[i].class = dets[j].class => i = j
          /\ {dets[i].class : i \in 1..Len(dets)} \subseteq req[r].seen
          /\ \A i \in 1..Len(dets) :
               LET n == Len(ov[i].volumes)
                   q == dets[i].box_ratio
               IN  /\ dets[i].class = ov[i].name
                   /\ n >= 1
                   /\ dets[i].confidence = 90
                   /\ q.den = 100
                   /\ 2 * Abs(q.num * n - Sum(ov[i].volumes)) <= n

\* a video response: one class was sampled twice, once with 0, and has a
\* non-zero mean; the other class was seen on unsampled frames only and is
\* not listed
C7_Witness ==
  \E r \in Reqs :
    /\ Succeeded(req[r]) /\ VideoRequest(req[r])
    /\ req[r].seen = Classes
    /\ LET dets == req[r].response.body.detections
           ov == req[r].object_volumes
       IN  /\ Len(dets) = 1
           /\ Len(ov[1].volumes) = 2
           /\ 0 \in Range(ov[1].volumes)
           /\ dets[1].box_ratio.num > 0

\* C8: after frame k raised in the loop, capture and writer have been
\* released once each, the frames written are 0..k-1 in order, no exception
\* of the loop leaves process_video, and the response, unless the read-back
\* of the output file raises, is a video response built from the samples
\* taken up to the failure.
C8_FrameFailure ==
  \A r \in Reqs :
    \A k \in req[r].failed_at :
      LET rq == req[r] IN
      /\ rq.pc \in {"encode", "done"}
      /\ rq.cap_released = 1
      /\ rq.out_released = 1
      /\ rq.frame_count = k
      /\ rq.written = [i \in 1..k |-> i - 1]
      /\ rq.raised_at \in {None, "read_back"}
      /\ (rq.pc = "done" /\ rq.raised_at = None) =>
           /\ rq.response.kind = "ok"
           /\ rq.response.body.type = "video"
           /\ rq.response.body.annotated_data[2] = rq.written
           /\ {rq.response.body.detections[i].class :
                  i \in 1..Len(rq.response.body.detections)}
                = Names(rq.object_volumes)

\* frame 15 raised after its sample was appended; the response lists the
\* class sampled and holds frames 0..14
C8_Witness ==
  \E r \in Reqs :
    /\ req[r].failed_at = {15}
    /\ Succeeded(req[r])
    /\ req[r].sample_frames = {15}
    /\ req[r].response.body.count = 1
    /\ Len(req[r].response.body.annotated_data[2]) = 15

\* C10: a step of a request changes neither app_models nor the lifespan's
\* position, changes no other request's state, and makes and removes only
\* temp files of its own.
C10_RequestsLocal ==
  [][/\ req' # req => app_models' = app_models /\ phase' = phase
     /\ \A r \in Reqs :
          req'[r] # req[r] =>
            /\ \A q \in Reqs \ {r} : req'[q] = req[q]
            /\ files' \ files \subseteq req'[r].created
            /\ files \ files' \subseteq req[r].created]_vars

\* one request is parked at its await while another has finished a video
\* with all models loaded
C10_Witness ==
  \E r, q \in Reqs :
    /\ r # q
    /\ req[r].pc = "await_read"
    /\ Succeeded(req[q]) /\ VideoRequest(req[q])
    /\ req[q].frame_count > 0
    /\ DOMAIN app_models = ModelKeys

====
